---- MODULE Spec2Model ----
(***************************************************************************)
(* FrameDataPair (image/src/FrameSequence.h): a (frame, raw frame data)    *)
(* tuple holding an nsRefPtr<imgFrame> and a raw pointer obtained under    *)
(* the frame's image-data lock.  The model keeps, for every frame, its     *)
(* reference count and its lock count (successful LockImageData calls not  *)
(* yet undone by UnlockImageData), and for every slot its two members.     *)
(***************************************************************************)
EXTENDS Integers, Sequences, FiniteSets

\* ------------------------------------------------------------------ bounds
NumSlots == 2      \* FrameDataPair objects that may exist at once
MaxLocks == 2      \* locks outstanding on one frame
MaxHeld == 1       \* references to one frame held outside the slots
NumThreads == 3    \* threads that share the FrameSequence
MaxRefs == 3       \* references to the FrameSequence

Slots == 1..NumSlots
Threads == 1..NumThreads
\* The value of count for a thread that is not inside Release().
NoCount == -1
\* The imgFrame objects: frame 1 is a direct-colour frame, frame 2 a
\* paletted one.
Frames == {1, 2}
Null == 0

\* imgFrame::GetIsPaletted(): a frame is paletted or not from its creation on.
GetIsPaletted(f) == f = 2

\* The two buffers of frame f, as distinct non-null addresses.
GetImageData(f) == 2 * f
GetPaletteData(f) == 2 * f + 1
Pointers == {Null} \cup {GetImageData(f) : f \in Frames}
                   \cup {GetPaletteData(f) : f \in Frames}

VARIABLES
  slot,      \* slot[s] = [live, mFrame, mFrameData]
  refcnt,    \* refcnt[f]: imgFrame reference count (0: the frame is deleted)
  lockCount, \* lockCount[f]: successful LockImageData calls on f minus
             \*               UnlockImageData calls on f
  held,      \* held[f]: references the caller owns (already_AddRefed results,
             \*          and the reference of whoever created the frame)
  last,      \* the record of the call just made: the member function, its
             \* operands, its return value and the calls it made on frames,
             \* in order; NoOp once the record has been put away
  mFrames,   \* FrameSequence::mFrames: the slots the sequence holds, in order
  deletes,   \* how many times the FrameSequence has been destroyed
  mRefCnt,   \* FrameSequence::mRefCnt, the sequence's own reference count
  owned,     \* for each thread, the references to the sequence it holds
  count      \* for each thread inside Release(), the value its decrement
             \* returned; NoCount outside Release()

vars == <<slot, refcnt, lockCount, held, last, mFrames, deletes, mRefCnt,
          owned, count>>

\* The sequence's elements and lifetime; its reference counting.
seqvars == <<mFrames, deletes>>
refvars == <<mRefCnt, owned, count>>

Dead == [live |-> FALSE, mFrame |-> Null, mFrameData |-> Null]

\* ----------------------------------------------------- calls made on frames
\* A world is the part of the state one member function can change, plus the
\* log of the calls it made on frames.
World == [slot |-> slot, refcnt |-> refcnt, lockCount |-> lockCount,
          ev |-> <<>>, ret |-> Null, mFrames |-> mFrames]

Event(w, name, f) ==
  [e |-> name, f |-> f, rc |-> IF f \in Frames THEN w.refcnt[f] ELSE 0]

Log(w, name, f) == [w EXCEPT !.ev = Append(@, Event(w, name, f))]

\* nsRefPtr: taking a reference (no call when the pointer is null).
AddRef(w, f) ==
  IF f = Null THEN w
  ELSE Log([w EXCEPT !.refcnt[f] = @ + 1], "AddRef", f)

\* nsRefPtr: dropping a reference (no call when the pointer is null).
Release(w, f) ==
  IF f = Null THEN w
  ELSE Log([w EXCEPT !.refcnt[f] = @ - 1], "Release", f)

\* mFrame->UnlockImageData(); through a null mFrame it is a null dereference.
UnlockImageData(w, f) ==
  IF f = Null THEN Log(w, "NullDeref", f)
  ELSE Log([w EXCEPT !.lockCount[f] = @ - 1], "Unlock", f)

\* mFrame->LockImageData(): ok is the nsresult the frame answers with.
LockImageData(w, f, ok) ==
  IF ok THEN Log([w EXCEPT !.lockCount[f] = @ + 1], "Lock", f)
  ELSE Log(w, "LockFailed", f)

\* ------------------------------------------------ FrameDataPair's members
\* A constructor that leaves the new slot without its frame.
Ctor_DropsFrame(w, s, frame) ==
  [w EXCEPT !.slot[s] = [live |-> TRUE, mFrame |-> Null, mFrameData |-> Null]]

\* explicit FrameDataPair(imgFrame* frame)
Ctor(w, s, frame) ==
  LET w1 == AddRef(w, frame)
  IN [w1 EXCEPT !.slot[s] = [live |-> TRUE, mFrame |-> frame, mFrameData |-> Null]]

\* FrameDataPair()
DefaultCtor(w, s) ==
  [w EXCEPT !.slot[s] = [live |-> TRUE, mFrame |-> Null, mFrameData |-> Null]]

\* A copy constructor that copies the data pointer too.
CopyCtor_CopiesData(w, s, o) ==
  LET w1 == AddRef(w, w.slot[o].mFrame)
  IN [w1 EXCEPT !.slot[s] = [live |-> TRUE, mFrame |-> w.slot[o].mFrame,
                             mFrameData |-> w.slot[o].mFrameData]]

\* FrameDataPair(const FrameDataPair& aOther)
CopyCtor(w, s, o) ==
  LET w1 == AddRef(w, w.slot[o].mFrame)
  IN [w1 EXCEPT !.slot[s] = [live |-> TRUE, mFrame |-> w.slot[o].mFrame,
                             mFrameData |-> Null]]

\* A move constructor that forgets to null aOther.mFrameData.
MoveCtor_KeepsData(w, s, o) ==
  [w EXCEPT !.slot[s] = [live |-> TRUE, mFrame |-> w.slot[o].mFrame,
                         mFrameData |-> w.slot[o].mFrameData],
            !.slot[o] = [live |-> TRUE, mFrame |-> Null,
                         mFrameData |-> w.slot[o].mFrameData]]

\* FrameDataPair(FrameDataPair&& aOther)
MoveCtor(w, s, o) ==
  [w EXCEPT !.slot[s] = [live |-> TRUE, mFrame |-> w.slot[o].mFrame,
                         mFrameData |-> w.slot[o].mFrameData],
            !.slot[o] = [live |-> TRUE, mFrame |-> Null, mFrameData |-> Null]]

\* A destructor that lets go of the frame before it unlocks it.
Dtor_ReleasesFirst(w, s) ==
  LET w1 == Release(w, w.slot[s].mFrame)
      w2 == IF w.slot[s].mFrameData # Null
            THEN UnlockImageData(w1, w.slot[s].mFrame) ELSE w1
  IN [w2 EXCEPT !.slot[s] = Dead]

\* A destructor that does not unlock.
Dtor_NoUnlock(w, s) ==
  [Release(w, w.slot[s].mFrame) EXCEPT !.slot[s] = Dead]

\* ~FrameDataPair(): the body, then the members' destructors.
Dtor(w, s) ==
  LET w1 == IF w.slot[s].mFrameData # Null
            THEN UnlockImageData(w, w.slot[s].mFrame) ELSE w
      w2 == Release(w1, w.slot[s].mFrame)
  IN [w2 EXCEPT !.slot[s] = Dead]

\* A copy assignment without the test for assignment to itself.
CopyAssign_NoSelfTest(w, s, o) ==
  LET w1 == AddRef(w, w.slot[o].mFrame)
      w2 == Release(w1, w.slot[s].mFrame)
  IN [w2 EXCEPT !.slot[s].mFrame = w.slot[o].mFrame,
                !.slot[s].mFrameData = Null]

\* A copy assignment that copies the data pointer too.
CopyAssign_CopiesData(w, s, o) ==
  IF o # s
  THEN LET w1 == AddRef(w, w.slot[o].mFrame)
           w2 == Release(w1, w.slot[s].mFrame)
       IN [w2 EXCEPT !.slot[s].mFrame = w.slot[o].mFrame,
                     !.slot[s].mFrameData = w.slot[o].mFrameData]
  ELSE w

\* operator=(const FrameDataPair& aOther)
CopyAssign(w, s, o) ==
  IF o # s
  THEN LET w1 == AddRef(w, w.slot[o].mFrame)
           w2 == Release(w1, w.slot[s].mFrame)
       IN [w2 EXCEPT !.slot[s].mFrame = w.slot[o].mFrame,
                     !.slot[s].mFrameData = Null]
  ELSE w

\* operator=(FrameDataPair&& aOther), aOther another object (MOZ_ASSERT).
MoveAssign(w, s, o) ==
  LET w1 == Release(w, w.slot[s].mFrame)
  IN [w1 EXCEPT !.slot[s].mFrame = w.slot[o].mFrame,
                !.slot[s].mFrameData = w.slot[o].mFrameData,
                !.slot[o].mFrame = Null,
                !.slot[o].mFrameData = Null]

\* A LockAndGetData that asks the wrong accessor.
LockAndGetData_WrongAccessor(w, s, ok, gone) ==
  IF w.slot[s].mFrame # Null
  THEN LET f == w.slot[s].mFrame
           w1 == LockImageData(w, f, ok)
       IN IF ok
          THEN IF GetIsPaletted(f)
               THEN [w1 EXCEPT !.slot[s].mFrameData =
                                  IF gone THEN Null ELSE GetImageData(f)]
               ELSE [w1 EXCEPT !.slot[s].mFrameData =
                                  IF gone THEN Null ELSE GetPaletteData(f)]
          ELSE w1
  ELSE w

\* A LockAndGetData that does not test mFrame.
LockAndGetData_NoNullCheck(w, s, ok, gone) ==
  LET f == w.slot[s].mFrame
      w1 == IF f = Null THEN Log(w, "NullDeref", f) ELSE LockImageData(w, f, ok)
  IN IF ok /\ f # Null
     THEN [w1 EXCEPT !.slot[s].mFrameData =
                        IF gone THEN Null
                        ELSE IF GetIsPaletted(f) THEN GetPaletteData(f)
                        ELSE GetImageData(f)]
     ELSE w1

\* A LockAndGetData that does not look at the result of LockImageData.
LockAndGetData_IgnoresResult(w, s, ok, gone) ==
  IF w.slot[s].mFrame # Null
  THEN LET f == w.slot[s].mFrame
           w1 == LockImageData(w, f, ok)
       IN [w1 EXCEPT !.slot[s].mFrameData =
                        IF gone THEN Null
                        ELSE IF GetIsPaletted(f) THEN GetPaletteData(f)
                        ELSE GetImageData(f)]
  ELSE w

\* LockAndGetData(): ok is what LockImageData answers; gone tells that the
\* accessor asked for the buffer has none to return (a null pointer).
LockAndGetData(w, s, ok, gone) ==
  IF w.slot[s].mFrame # Null
  THEN LET f == w.slot[s].mFrame
           w1 == LockImageData(w, f, ok)
       IN IF ok
          THEN IF GetIsPaletted(f)
               THEN [w1 EXCEPT !.slot[s].mFrameData =
                                  IF gone THEN Null ELSE GetPaletteData(f)]
               ELSE [w1 EXCEPT !.slot[s].mFrameData =
                                  IF gone THEN Null ELSE GetImageData(f)]
          ELSE w1
  ELSE w

\* A Forget that hands the frame out and keeps its own pointer to it.
Forget_KeepsFrame(w, s) ==
  LET w1 == IF w.slot[s].mFrameData # Null
            THEN UnlockImageData(w, w.slot[s].mFrame) ELSE w
  IN [w1 EXCEPT !.slot[s].mFrameData = Null,
                !.ret = w.slot[s].mFrame]

\* A Forget that leaves the data pointer as it is.
Forget_KeepsData(w, s) ==
  LET w1 == IF w.slot[s].mFrameData # Null
            THEN UnlockImageData(w, w.slot[s].mFrame) ELSE w
  IN [w1 EXCEPT !.slot[s].mFrame = Null,
                !.ret = w.slot[s].mFrame]

\* Forget()
Forget(w, s) ==
  LET w1 == IF w.slot[s].mFrameData # Null
            THEN UnlockImageData(w, w.slot[s].mFrame) ELSE w
  IN [w1 EXCEPT !.slot[s].mFrameData = Null,
                !.slot[s].mFrame = Null,
                !.ret = w.slot[s].mFrame]

\* HasFrameData(): the log records a failure of MOZ_ASSERT(!!mFrame).
HasFrameData(w, s) ==
  LET w1 == IF w.slot[s].mFrameData # Null /\ w.slot[s].mFrame = Null
            THEN Log(w, "AssertFailed", Null) ELSE w
  IN [w1 EXCEPT !.ret = IF w.slot[s].mFrameData # Null THEN 1 ELSE 0]

\* A GetFrame that hands out the pointer without a reference of its own.
GetFrame_NoAddRef(w, s) == [w EXCEPT !.ret = w.slot[s].mFrame]

\* GetFrame()
GetFrame(w, s) ==
  LET w1 == AddRef(w, w.slot[s].mFrame)
  IN [w1 EXCEPT !.ret = w.slot[s].mFrame]

\* A SetFrame that releases the old frame before it takes the new one.
SetFrame_ReleasesFirst(w, s, frame) ==
  LET w1 == IF w.slot[s].mFrameData # Null
            THEN UnlockImageData(w, w.slot[s].mFrame) ELSE w
      w2 == Release(w1, w.slot[s].mFrame)
      w3 == AddRef(w2, frame)
  IN [w3 EXCEPT !.slot[s].mFrame = frame, !.slot[s].mFrameData = Null]

\* SetFrame(imgFrame* frame): mFrame = frame takes the new reference, then
\* drops the old one.
SetFrame(w, s, frame) ==
  LET w1 == IF w.slot[s].mFrameData # Null
            THEN UnlockImageData(w, w.slot[s].mFrame) ELSE w
      w2 == AddRef(w1, frame)
      w3 == Release(w2, w.slot[s].mFrame)
  IN [w3 EXCEPT !.slot[s].mFrame = frame, !.slot[s].mFrameData = Null]

\* ------------------------------------------------------------------ state
NoOp == [op |-> "None"]

Init ==
  /\ slot = [s \in Slots |-> Dead]
  /\ refcnt = [f \in Frames |-> 1]
  /\ lockCount = [f \in Frames |-> 0]
  /\ held = [f \in Frames |-> 1]
  /\ last = NoOp
  /\ mFrames = <<>>
  /\ deletes = 0
  /\ mRefCnt = 1
  /\ owned = [t \in Threads |-> IF t = 1 THEN 1 ELSE 0]
  /\ count = [t \in Threads |-> NoCount]

\* The state after a member function that left the world w, called as op on
\* slot s with the other operand o (a slot, or 0) and the argument arg.
Commit(w, op, s, o, arg) ==
  /\ last = NoOp
  /\ slot' = w.slot
  /\ refcnt' = w.refcnt
  /\ lockCount' = w.lockCount
  /\ mFrames' = w.mFrames
  /\ UNCHANGED <<deletes, refvars>>
  /\ last' = [op |-> op, s |-> s, o |-> o, arg |-> arg,
              pre |-> IF s \in Slots THEN slot[s] ELSE Dead,
              opre |-> IF o \in Slots THEN slot[o] ELSE Dead,
              refPre |-> refcnt, lockPre |-> lockCount, heldPre |-> held,
              ret |-> w.ret, ev |-> w.ev]

\* A raw imgFrame* a caller can pass: null, or a frame that still exists.
Passable(f) == f = Null \/ (f \in Frames /\ refcnt[f] > 0)

DoCtor ==
  \E s \in Slots, f \in {Null} \cup Frames :
    /\ ~slot[s].live
    /\ Passable(f)
    /\ Commit(Ctor(World, s, f), "Ctor", s, 0, f)
    /\ UNCHANGED held

DoDefaultCtor ==
  \E s \in Slots :
    /\ ~slot[s].live
    /\ Commit(DefaultCtor(World, s), "DefaultCtor", s, 0, Null)
    /\ UNCHANGED held

DoCopyCtor ==
  \E s \in Slots, o \in Slots :
    /\ ~slot[s].live
    /\ slot[o].live
    /\ Commit(CopyCtor(World, s, o), "CopyCtor", s, o, Null)
    /\ UNCHANGED held

DoMoveCtor ==
  \E s \in Slots, o \in Slots :
    /\ ~slot[s].live
    /\ slot[o].live
    /\ Commit(MoveCtor(World, s, o), "MoveCtor", s, o, Null)
    /\ UNCHANGED held

DoDtor ==
  \E s \in Slots :
    /\ slot[s].live
    /\ Commit(Dtor(World, s), "Dtor", s, 0, Null)
    /\ UNCHANGED held

DoCopyAssign ==
  \E s \in Slots, o \in Slots :
    /\ slot[s].live
    /\ slot[o].live
    /\ Commit(CopyAssign(World, s, o), "CopyAssign", s, o, Null)
    /\ UNCHANGED held

DoMoveAssign ==
  \E s \in Slots, o \in Slots :
    /\ slot[s].live
    /\ slot[o].live
    /\ o # s
    /\ Commit(MoveAssign(World, s, o), "MoveAssign", s, o, Null)
    /\ UNCHANGED held

\* A call of LockAndGetData where the accessor's answer is drawn from gones.
LockAndGetDataCall(gones) ==
  \E s \in Slots, ok \in BOOLEAN, gone \in gones :
    /\ slot[s].live
    /\ slot[s].mFrame # Null => lockCount[slot[s].mFrame] < MaxLocks
    /\ Commit(LockAndGetData(World, s, ok, gone), "LockAndGetData", s, 0,
              IF gone THEN 1 ELSE 0)
    /\ UNCHANGED held

DoLockAndGetData == LockAndGetDataCall(BOOLEAN)

\* LockAndGetData on frames whose accessors always return their buffer.
DoLockAndGetDataBuffer == LockAndGetDataCall({FALSE})

DoForget ==
  \E s \in Slots :
    /\ slot[s].live
    /\ slot[s].mFrame # Null => held[slot[s].mFrame] < MaxHeld
    /\ Commit(Forget(World, s), "Forget", s, 0, Null)
    /\ held' = IF slot[s].mFrame # Null
               THEN [held EXCEPT ![slot[s].mFrame] = @ + 1] ELSE held

DoHasFrameData ==
  \E s \in Slots :
    /\ slot[s].live
    /\ Commit(HasFrameData(World, s), "HasFrameData", s, 0, Null)
    /\ UNCHANGED held

DoGetFrame ==
  \E s \in Slots :
    /\ slot[s].live
    /\ slot[s].mFrame # Null => held[slot[s].mFrame] < MaxHeld
    /\ Commit(GetFrame(World, s), "GetFrame", s, 0, Null)
    /\ held' = IF slot[s].mFrame # Null
               THEN [held EXCEPT ![slot[s].mFrame] = @ + 1] ELSE held

DoSetFrame ==
  \E s \in Slots, f \in {Null} \cup Frames :
    /\ slot[s].live
    /\ Passable(f)
    /\ Commit(SetFrame(World, s, f), "SetFrame", s, 0, f)
    /\ UNCHANGED held

\* The caller drops one of the references it owns.
DoReleaseHeld ==
  \E f \in Frames :
    /\ held[f] > 0
    /\ Commit(Release(World, f), "ReleaseHeld", 0, 0, f)
    /\ held' = [held EXCEPT ![f] = @ - 1]

\* The record of the call just made is put away before the next call.
Settle ==
  /\ last # NoOp
  /\ last' = NoOp
  /\ UNCHANGED <<slot, refcnt, lockCount, held, seqvars, refvars>>

Next ==
  \/ DoCtor
  \/ DoDefaultCtor
  \/ DoCopyCtor
  \/ DoMoveCtor
  \/ DoDtor
  \/ DoCopyAssign
  \/ DoMoveAssign
  \/ DoLockAndGetData
  \/ DoForget
  \/ DoHasFrameData
  \/ DoGetFrame
  \/ DoSetFrame
  \/ DoReleaseHeld
  \/ Settle

Spec == Init /\ [][Next]_vars

\* The same calls on frames whose GetImageData and GetPaletteData never
\* return null once the lock has succeeded.
NextBuffer ==
  \/ DoCtor
  \/ DoDefaultCtor
  \/ DoCopyCtor
  \/ DoMoveCtor
  \/ DoDtor
  \/ DoCopyAssign
  \/ DoMoveAssign
  \/ DoLockAndGetDataBuffer
  \/ DoForget
  \/ DoHasFrameData
  \/ DoGetFrame
  \/ DoSetFrame
  \/ DoReleaseHeld
  \/ Settle

SpecBuffer == Init /\ [][NextBuffer]_vars

\* ----------------------------------------------------------- FrameSequence
\* nsTArray::InsertElementAt and RemoveElementAt; positions count from 0.
InsertElementAt(seq, i, x) ==
  SubSeq(seq, 1, i) \o <<x>> \o SubSeq(seq, i + 1, Len(seq))

RemoveElementAt(seq, i) == SubSeq(seq, 1, i) \o SubSeq(seq, i + 2, Len(seq))

\* The storage of a new element of the array: a slot that does not exist yet.
NewElement(w) == CHOOSE s \in Slots : ~w.slot[s].live

\* void InsertFrame(uint32_t framenum, imgFrame* aFrame): a new slot bound to
\* aFrame is constructed at framenum; the slots from framenum on move up.
InsertFrame(w, framenum, aFrame) ==
  LET s == NewElement(w)
      w1 == Ctor(w, s, aFrame)
  IN [w1 EXCEPT !.mFrames = InsertElementAt(@, framenum, s)]

\* void RemoveFrame(uint32_t framenum): the slot at framenum is destroyed and
\* the slots after it move down.
RemoveFrame(w, framenum) ==
  LET w1 == Dtor(w, w.mFrames[framenum + 1])
  IN [w1 EXCEPT !.mFrames = RemoveElementAt(@, framenum)]

\* already_AddRefed<imgFrame> SwapFrame(uint32_t framenum, imgFrame* aFrame):
\* the slot at framenum gives up its frame (unlocking it first if its view is
\* active), is set to aFrame, and the frame given up goes to the caller.
SwapFrame(w, framenum, aFrame) ==
  LET s == w.mFrames[framenum + 1]
      w1 == Forget(w, s)
      w2 == SetFrame(w1, s, aFrame)
  IN [w2 EXCEPT !.ret = w1.ret]

\* The slots of elems are destroyed one after the other, first to last.
RECURSIVE DestroyElements(_, _)
DestroyElements(w, elems) ==
  IF elems = <<>> THEN w
  ELSE DestroyElements(Dtor(w, Head(elems)), Tail(elems))

\* void ClearFrames(): every slot is destroyed, in order.
ClearFrames(w) == [DestroyElements(w, w.mFrames) EXCEPT !.mFrames = <<>>]

\* ~FrameSequence(): the array is destroyed, and with it every slot.
FrameSequenceDtor(w) == ClearFrames(w)

\* A call on the sequence, with the sequence and its slots as they were before.
CommitSeq(w, op, s, framenum, arg) ==
  /\ last = NoOp
  /\ slot' = w.slot
  /\ refcnt' = w.refcnt
  /\ lockCount' = w.lockCount
  /\ mFrames' = w.mFrames
  /\ UNCHANGED refvars
  /\ last' = [op |-> op, s |-> s, o |-> 0, arg |-> arg, framenum |-> framenum,
              pre |-> IF s \in Slots THEN slot[s] ELSE Dead,
              opre |-> Dead,
              refPre |-> refcnt, lockPre |-> lockCount, heldPre |-> held,
              ret |-> w.ret, ev |-> w.ev,
              seqPre |-> mFrames, slotPre |-> slot]

DoInsertFrame ==
  \E framenum \in 0..Len(mFrames), f \in {Null} \cup Frames :
    /\ deletes = 0
    /\ Len(mFrames) < NumSlots
    /\ Passable(f)
    /\ CommitSeq(InsertFrame(World, framenum, f), "InsertFrame",
                 NewElement(World), framenum, f)
    /\ UNCHANGED <<held, deletes>>

DoRemoveFrame ==
  \E framenum \in 0..(Len(mFrames) - 1) :
    /\ deletes = 0
    /\ CommitSeq(RemoveFrame(World, framenum), "RemoveFrame",
                 mFrames[framenum + 1], framenum, Null)
    /\ UNCHANGED <<held, deletes>>

\* The frame given up is one more reference the caller owns.
DoSwapFrame ==
  \E framenum \in 0..(Len(mFrames) - 1), f \in {Null} \cup Frames :
    LET old == slot[mFrames[framenum + 1]].mFrame IN
    /\ deletes = 0
    /\ Passable(f)
    /\ old # Null => held[old] < MaxHeld
    /\ CommitSeq(SwapFrame(World, framenum, f), "SwapFrame",
                 mFrames[framenum + 1], framenum, f)
    /\ held' = IF old # Null THEN [held EXCEPT ![old] = @ + 1] ELSE held
    /\ UNCHANGED deletes

\* A consumer takes the slot at framenum (GetFrame(framenum)) and asks it for
\* its data.
DoLockFrameAt ==
  \E framenum \in 0..(Len(mFrames) - 1), ok \in BOOLEAN, gone \in BOOLEAN :
    LET s == mFrames[framenum + 1] IN
    /\ deletes = 0
    /\ slot[s].mFrame # Null => lockCount[slot[s].mFrame] < MaxLocks
    /\ CommitSeq(LockAndGetData(World, s, ok, gone), "LockAndGetData", s,
                 framenum, IF gone THEN 1 ELSE 0)
    /\ UNCHANGED <<held, deletes>>

DoClearFrames ==
  /\ deletes = 0
  /\ CommitSeq(ClearFrames(World), "ClearFrames", 0, 0, Null)
  /\ UNCHANGED <<held, deletes>>

\* The last reference to the sequence goes away.
DoFrameSequenceDtor ==
  /\ deletes = 0
  /\ CommitSeq(FrameSequenceDtor(World), "~FrameSequence", 0, 0, Null)
  /\ deletes' = 1
  /\ UNCHANGED held

NextSeq ==
  \/ DoInsertFrame
  \/ DoRemoveFrame
  \/ DoSwapFrame
  \/ DoLockFrameAt
  \/ DoClearFrames
  \/ DoFrameSequenceDtor
  \/ DoReleaseHeld
  \/ Settle

SpecSeq == Init /\ [][NextSeq]_vars

\* ------------------------------------- FrameSequence's reference counting
\* NS_INLINE_DECL_THREADSAFE_REFCOUNTING: AddRef() is ++mRefCnt and Release()
\* is count = --mRefCnt; if (count == 0) delete this; both on an atomic counter.
Increment(n) == n + 1

Decrement(n) == n - 1

\* A test that also fires on the last reference but one.
IsLastRelease_OffByOne(n) == n <= 1

\* The test Release() makes on the value its decrement returned.
IsLastRelease(n) == n = 0

\* Thread t, which holds a reference, takes one more for thread u.
ThreadAddRef ==
  \E t \in Threads, u \in Threads :
    /\ owned[t] > 0
    /\ count[t] = NoCount
    /\ mRefCnt < MaxRefs
    /\ mRefCnt' = Increment(mRefCnt)
    /\ owned' = [owned EXCEPT ![u] = @ + 1]
    /\ UNCHANGED <<slot, refcnt, lockCount, held, last, seqvars, count>>

\* Thread t gives up a reference: the atomic decrement of Release().
ThreadRelease ==
  \E t \in Threads :
    /\ owned[t] > 0
    /\ count[t] = NoCount
    /\ mRefCnt' = Decrement(mRefCnt)
    /\ count' = [count EXCEPT ![t] = Decrement(mRefCnt)]
    /\ owned' = [owned EXCEPT ![t] = @ - 1]
    /\ UNCHANGED <<slot, refcnt, lockCount, held, last, seqvars>>

\* Release() returns: the decrement of thread t did not answer zero.
ThreadReturn ==
  \E t \in Threads :
    /\ count[t] # NoCount
    /\ ~IsLastRelease(count[t])
    /\ count' = [count EXCEPT ![t] = NoCount]
    /\ UNCHANGED <<slot, refcnt, lockCount, held, last, seqvars, mRefCnt, owned>>

\* delete this: the decrement of thread t answered zero.
ThreadDelete ==
  \E t \in Threads :
    LET w == FrameSequenceDtor(World) IN
    /\ count[t] # NoCount
    /\ IsLastRelease(count[t])
    /\ count' = [count EXCEPT ![t] = NoCount]
    /\ deletes' = deletes + 1
    /\ slot' = w.slot
    /\ refcnt' = w.refcnt
    /\ lockCount' = w.lockCount
    /\ mFrames' = w.mFrames
    /\ UNCHANGED <<held, last, mRefCnt, owned>>

NextRef ==
  \/ ThreadAddRef
  \/ ThreadRelease
  \/ ThreadReturn
  \/ ThreadDelete

SpecRef == Init /\ [][NextRef]_vars

\* ------------------------------------------------------- reading the record
Called(op) == last.op = op

CalledOneOf(ops) == last.op \in ops

\* The number of calls of one kind the last member function made on frame f.
Calls(name, f) ==
  Cardinality({i \in DOMAIN last.ev : last.ev[i].e = name /\ last.ev[i].f = f})

\* The last member function made no LockImageData and no UnlockImageData call.
NoLockCalls ==
  \A i \in DOMAIN last.ev : last.ev[i].e \notin {"Lock", "LockFailed", "Unlock"}

NoUnlockCalls == \A i \in DOMAIN last.ev : last.ev[i].e # "Unlock"

\* No null dereference and no failed assertion in the last member function.
NoError ==
  \A i \in DOMAIN last.ev : last.ev[i].e \notin {"NullDeref", "AssertFailed"}

Empty == [live |-> TRUE, mFrame |-> Null, mFrameData |-> Null]

IsBoundInactive(r) == r.live /\ r.mFrame # Null /\ r.mFrameData = Null

IsBoundActive(r) == r.live /\ r.mFrame # Null /\ r.mFrameData # Null

AllDestroyed == \A s \in Slots : ~slot[s].live

\* ----------------------------------------------------------------- claims
\* C1: once every slot has been destroyed, every frame has received as many
\* unlock calls as successful lock calls (its lock count is back to zero).
C1_LockBalance ==
  AllDestroyed => \A f \in Frames : lockCount[f] = 0

\* C2: copy- or move-assigning over a destination whose view is active, from
\* another slot, issues exactly one unlock on the frame the destination held.
C2_AssignReleasesOnce ==
  (CalledOneOf({"CopyAssign", "MoveAssign"}) /\ last.o # last.s
     /\ IsBoundActive(last.pre))
  => Calls("Unlock", last.pre.mFrame) = 1

\* C3: copy-construction gives a slot with the source's handle and an
\* inactive view, makes no lock or unlock call, leaves the source as it was,
\* and leaves every frame's lock count as it was.
C3_CopyDoesNotDuplicateLock ==
  Called("CopyCtor") =>
    /\ slot[last.s].live
    /\ slot[last.s].mFrame = last.opre.mFrame
    /\ slot[last.s].mFrameData = Null
    /\ NoLockCalls
    /\ slot[last.o] = last.opre
    /\ lockCount = last.lockPre

\* A copy was made of a slot whose view is active.
C3_Witness ==
  /\ Called("CopyCtor")
  /\ IsBoundActive(last.opre)
  /\ lockCount[last.opre.mFrame] > 0

\* C4: a move (constructor or assignment, source another slot) leaves the
\* destination with the handle and the view pointer the source had, leaves the
\* source empty with an inactive view, makes no lock or unlock call on the
\* moved frame and leaves the moved frame's lock count as it was.
C4_MoveTransfers ==
  (CalledOneOf({"MoveCtor", "MoveAssign"}) /\ last.o # last.s) =>
    /\ slot[last.s].live
    /\ slot[last.s].mFrame = last.opre.mFrame
    /\ slot[last.s].mFrameData = last.opre.mFrameData
    /\ slot[last.o] = Empty
    /\ last.opre.mFrame # Null =>
         /\ Calls("Lock", last.opre.mFrame) = 0
         /\ Calls("LockFailed", last.opre.mFrame) = 0
         /\ Calls("Unlock", last.opre.mFrame) = 0
         /\ lockCount[last.opre.mFrame] = last.lockPre[last.opre.mFrame]

\* A slot with an active view was move-assigned over a slot bound to a frame.
C4_Witness ==
  /\ Called("MoveAssign")
  /\ IsBoundActive(last.opre)
  /\ last.pre.mFrame # Null
  /\ IsBoundActive(slot[last.s])

\* C5: a LockAndGetData on a bound slot with an inactive view whose lock call
\* fails leaves the slot as it was, raises no error and issues no unlock; and
\* a slot whose view is inactive (as that slot's is) issues no unlock when it
\* is destroyed, forgotten or given another frame.
C5_FailedActivationOwesNothing ==
  /\ (Called("LockAndGetData") /\ IsBoundInactive(last.pre)
        /\ Calls("LockFailed", last.pre.mFrame) > 0) =>
       /\ slot[last.s] = last.pre
       /\ NoUnlockCalls
       /\ NoError
       /\ lockCount = last.lockPre
  /\ (CalledOneOf({"Dtor", "Forget", "SetFrame"}) /\ last.pre.mFrameData = Null)
       => NoUnlockCalls

\* The lock call of a LockAndGetData on a bound slot with an inactive view
\* failed.
C5_Witness ==
  /\ Called("LockAndGetData")
  /\ IsBoundInactive(last.pre)
  /\ Calls("LockFailed", last.pre.mFrame) = 1
\* The i-th call the last member function made on a frame is of the kind named.
Is(i, name) == i \in DOMAIN last.ev /\ last.ev[i].e = name

\* Frame f existed at every call the last member function made on it
\* (rc is the reference count right after the call).
StaysAlive(f) ==
  \A i \in DOMAIN last.ev : last.ev[i].f = f => last.ev[i].rc > 0

\* C6: after SetFrame(frame) the handle is frame and the view is inactive;
\* one unlock was issued on the frame held before if the view was active and
\* no unlock otherwise; a frame set again on the slot that holds it never
\* loses its last reference.
C6_SetFramePost ==
  Called("SetFrame") =>
    /\ slot[last.s].live
    /\ slot[last.s].mFrame = last.arg
    /\ slot[last.s].mFrameData = Null
    /\ NoError
    /\ IF last.pre.mFrameData # Null
       THEN /\ Calls("Unlock", last.pre.mFrame) = 1
            /\ \A f \in Frames \ {last.pre.mFrame} : Calls("Unlock", f) = 0
            /\ lockCount[last.pre.mFrame] = last.lockPre[last.pre.mFrame] - 1
       ELSE NoUnlockCalls /\ lockCount = last.lockPre
    /\ (last.arg # Null /\ last.arg = last.pre.mFrame) =>
         /\ StaysAlive(last.arg)
         /\ refcnt[last.arg] = last.refPre[last.arg]
         /\ refcnt[last.arg] > 0

\* SetFrame was called with the frame the slot holds, the view active and the
\* slot's reference the only one.
C6_Witness ==
  /\ Called("SetFrame")
  /\ IsBoundActive(last.pre)
  /\ last.arg = last.pre.mFrame
  /\ last.refPre[last.arg] = 1

\* C7: Forget returns the handle the slot held (null for an empty slot),
\* leaves the slot empty with an inactive view, issues one unlock on the frame
\* if the view was active and none otherwise, and changes no reference count:
\* the slot's reference becomes the caller's.
C7_ForgetPost ==
  Called("Forget") =>
    /\ last.ret = last.pre.mFrame
    /\ slot[last.s] = Empty
    /\ NoError
    /\ IF last.pre.mFrameData # Null
       THEN /\ Calls("Unlock", last.pre.mFrame) = 1
            /\ \A f \in Frames \ {last.pre.mFrame} : Calls("Unlock", f) = 0
            /\ lockCount[last.pre.mFrame] = last.lockPre[last.pre.mFrame] - 1
       ELSE NoUnlockCalls /\ lockCount = last.lockPre
    /\ refcnt = last.refPre
    /\ \A f \in Frames : Calls("AddRef", f) = 0 /\ Calls("Release", f) = 0
    /\ \A f \in Frames :
         held[f] = last.heldPre[f] + (IF f = last.pre.mFrame THEN 1 ELSE 0)

\* Forget was called on a slot whose view is active.
C7_Witness ==
  /\ Called("Forget")
  /\ IsBoundActive(last.pre)
  /\ last.ret # Null

\* C8: destroying a slot issues one unlock on its frame if its view is active
\* and none otherwise; the unlock comes before the release of the slot's
\* reference, on a frame that still exists; the reference count of the frame
\* of a bound slot drops by one, and an empty slot makes no call at all.
C8_DestroyPost ==
  Called("Dtor") =>
    /\ ~slot[last.s].live
    /\ NoError
    /\ lockCount = [f \in Frames |->
         last.lockPre[f] - (IF last.pre.mFrameData # Null /\ f = last.pre.mFrame
                            THEN 1 ELSE 0)]
    /\ refcnt = [f \in Frames |->
         last.refPre[f] - (IF f = last.pre.mFrame THEN 1 ELSE 0)]
    /\ IF last.pre.mFrameData # Null
       THEN /\ Len(last.ev) = 2
            /\ Is(1, "Unlock") /\ last.ev[1].f = last.pre.mFrame
            /\ last.ev[1].rc > 0
            /\ Is(2, "Release") /\ last.ev[2].f = last.pre.mFrame
       ELSE IF last.pre.mFrame # Null
       THEN Len(last.ev) = 1 /\ Is(1, "Release")
              /\ last.ev[1].f = last.pre.mFrame
       ELSE last.ev = <<>>

\* A slot with an active view, holding the last reference to its frame, was
\* destroyed.
C8_Witness ==
  /\ Called("Dtor")
  /\ IsBoundActive(last.pre)
  /\ refcnt[last.pre.mFrame] = 0

\* C9: in every state, a slot whose data pointer is set has a frame, and no
\* member function fails the assertion of HasFrameData or calls through a
\* null mFrame.
C9_ViewImpliesHandle ==
  /\ \A s \in Slots : slot[s].mFrameData # Null => slot[s].mFrame # Null
  /\ last # NoOp => NoError

\* HasFrameData was called on a slot whose view is active.
C9_Witness ==
  /\ Called("HasFrameData")
  /\ last.ret = 1
  /\ IsBoundActive(slot[last.s])

\* The slots whose view is active on frame f.
ActiveOn(f) == {s \in Slots : slot[s].mFrameData # Null /\ slot[s].mFrame = f}

\* The frame whose buffer a pointer points into.
FrameOf(ptr) == ptr \div 2

\* C10: in every state, every frame's lock count is at least the number of
\* slots whose view is active on it, an active view points into the buffer of
\* the frame the slot holds, and no member function unlocks a frame whose
\* lock count is zero.
C10_LockExclusivity ==
  /\ \A f \in Frames : Cardinality(ActiveOn(f)) <= lockCount[f]
  /\ \A s \in Slots :
       slot[s].mFrameData # Null => FrameOf(slot[s].mFrameData) = slot[s].mFrame
  /\ last # NoOp =>
       \A f \in Frames : Calls("Unlock", f) > 0 =>
         /\ Calls("Unlock", f) = 1
         /\ Calls("Lock", f) = 0
         /\ last.lockPre[f] > 0

\* Two slots have an active view on the same frame.
C10_Witness ==
  \E f \in Frames :
    /\ Cardinality(ActiveOn(f)) = 2
    /\ lockCount[f] = 2
\* ------------------------------------------------- the slot state machine
\* The state of a slot; a slot that is not constructed counts as Empty (the
\* machine starts and ends there).
SlotState(r) ==
  IF r.mFrameData # Null THEN "BoundActive"
  ELSE IF r.live /\ r.mFrame # Null THEN "BoundInactive"
  ELSE "Empty"

\* The change of state of the slot the last call was made on, and of its
\* other operand.
TargetChange == <<SlotState(last.pre), SlotState(slot[last.s])>>

SourceChange == <<SlotState(last.opre), SlotState(slot[last.o])>>

\* The lock call of the last LockAndGetData succeeded.
LockSucceeded ==
  last.pre.mFrame # Null /\ Calls("Lock", last.pre.mFrame) = 1

\* The changes of state the state table lists for the slot a call is made on.
TableTarget ==
  CASE CalledOneOf({"Ctor", "CopyCtor", "MoveCtor", "CopyAssign", "MoveAssign"})
         -> {<<"Empty", "BoundInactive">>}
    [] Called("SetFrame")
         -> {<<"Empty", "BoundInactive">>, <<"BoundActive", "BoundInactive">>}
    [] Called("LockAndGetData") /\ LockSucceeded
         -> {<<"BoundInactive", "BoundActive">>}
    [] CalledOneOf({"Forget", "Dtor"})
         -> {<<"BoundActive", "Empty">>, <<"BoundInactive", "Empty">>}
    [] OTHER -> {}

\* The changes of state the state table lists for the slot moved out of.
TableSource ==
  IF CalledOneOf({"MoveCtor", "MoveAssign"})
  THEN {<<"BoundActive", "Empty">>, <<"BoundInactive", "Empty">>}
  ELSE {}

\* C11 as stated: every change of a slot's state made by a call is a
\* transition of the state table.
C11_StateTable ==
  (last # NoOp /\ last.s \in Slots) =>
    /\ TargetChange[1] # TargetChange[2] => TargetChange \in TableTarget
    /\ (last.o \in Slots /\ last.o # last.s /\ SourceChange[1] # SourceChange[2])
         => SourceChange \in TableSource

\* The changes of state the code makes to the slot a call is made on: the
\* table's, and those the table leaves out.
CodeTarget ==
  CASE CalledOneOf({"Ctor", "CopyCtor"})
         -> {<<"Empty", "BoundInactive">>}
    [] Called("MoveCtor")
         -> IF SlotState(last.opre) = "Empty" THEN {}
            ELSE {<<"Empty", SlotState(last.opre)>>}
    [] Called("CopyAssign")
         -> IF last.opre.mFrame # Null
            THEN {<<"Empty", "BoundInactive">>, <<"BoundActive", "BoundInactive">>}
            ELSE {<<"BoundActive", "Empty">>, <<"BoundInactive", "Empty">>}
    [] Called("MoveAssign")
         -> {<<from, SlotState(last.opre)>> :
               from \in {"Empty", "BoundInactive", "BoundActive"}}
    [] Called("SetFrame")
         -> IF last.arg # Null
            THEN {<<"Empty", "BoundInactive">>, <<"BoundActive", "BoundInactive">>}
            ELSE {<<"BoundActive", "Empty">>, <<"BoundInactive", "Empty">>}
    [] Called("LockAndGetData") /\ LockSucceeded
         -> IF last.arg = 0
            THEN {<<"BoundInactive", "BoundActive">>}
            ELSE {<<"BoundActive", "BoundInactive">>}
    [] CalledOneOf({"Forget", "Dtor"})
         -> {<<"BoundActive", "Empty">>, <<"BoundInactive", "Empty">>}
    [] OTHER -> {}

\* C11 as amended: every change of a slot's state made by a call is one of:
\* Empty to Bound-Inactive by construction with a frame, copy of a bound slot,
\* or SetFrame of a frame; any state to the state the source had by a move
\* (so to Bound-Active when the source's view was active); Bound-Active to
\* Bound-Inactive by SetFrame of a frame, by copy assignment from a bound slot,
\* or by a LockAndGetData whose lock succeeds and whose accessor returns null;
\* Bound-Inactive to Bound-Active by a LockAndGetData whose lock succeeds and
\* whose accessor returns a buffer; a bound state to Empty by Forget,
\* destruction, move-out, SetFrame(null) or assignment from an empty slot.
C11_CodeStateTable ==
  (last # NoOp /\ last.s \in Slots) =>
    /\ TargetChange[1] # TargetChange[2] => TargetChange \in CodeTarget
    /\ (last.o \in Slots /\ last.o # last.s /\ SourceChange[1] # SourceChange[2])
         => SourceChange \in TableSource

\* A move assignment took an empty slot to Bound-Active.
C11_Witness ==
  /\ Called("MoveAssign")
  /\ TargetChange = <<"Empty", "BoundActive">>
  /\ SourceChange = <<"BoundActive", "Empty">>
\* C12: when the lock of LockAndGetData succeeds, the pointer stored is what
\* GetPaletteData returned if the frame is paletted and what GetImageData
\* returned otherwise; and no slot ever holds the image pointer of a paletted
\* frame or the palette pointer of a direct-colour frame.
C12_PointerSelection ==
  /\ (Called("LockAndGetData") /\ LockSucceeded) =>
       LET f == last.pre.mFrame
       IN slot[last.s].mFrameData =
            IF last.arg = 1 THEN Null
            ELSE IF GetIsPaletted(f) THEN GetPaletteData(f) ELSE GetImageData(f)
  /\ \A s \in Slots : \A f \in Frames :
       /\ GetIsPaletted(f) => slot[s].mFrameData # GetImageData(f)
       /\ ~GetIsPaletted(f) => slot[s].mFrameData # GetPaletteData(f)

\* The lock of a paletted frame succeeded and its palette pointer was stored.
C12_Witness ==
  /\ Called("LockAndGetData")
  /\ LockSucceeded
  /\ GetIsPaletted(last.pre.mFrame)
  /\ slot[last.s].mFrameData = GetPaletteData(last.pre.mFrame)

\* C13: LockAndGetData on an empty slot makes no call on any frame and leaves
\* the slot empty with an inactive view.
C13_ActivateEmptyNoOp ==
  (Called("LockAndGetData") /\ last.pre = Empty) =>
    /\ last.ev = <<>>
    /\ slot[last.s] = Empty
    /\ lockCount = last.lockPre
    /\ refcnt = last.refPre

\* LockAndGetData was called on an empty slot while a frame exists that it
\* could have locked.
C13_Witness ==
  /\ Called("LockAndGetData")
  /\ last.pre = Empty
  /\ \E f \in Frames : refcnt[f] > 0

\* C14: copy-assigning a slot to itself leaves its handle and its view as they
\* were and makes no call on any frame.
C14_SelfCopyNoOp ==
  (Called("CopyAssign") /\ last.o = last.s) =>
    /\ slot[last.s] = last.pre
    /\ last.ev = <<>>
    /\ lockCount = last.lockPre
    /\ refcnt = last.refPre

\* A slot whose view is active was copy-assigned to itself.
C14_Witness ==
  /\ Called("CopyAssign")
  /\ last.o = last.s
  /\ IsBoundActive(last.pre)
  /\ IsBoundActive(slot[last.s])

\* C19: a LockAndGetData on a bound slot with an inactive view whose lock
\* succeeds leaves the view active, whatever pointer the accessor returned, so
\* that the slot never holds the lock while HasFrameData answers false.
C19_LockMakesActive ==
  (Called("LockAndGetData") /\ IsBoundInactive(last.pre) /\ LockSucceeded)
    => IsBoundActive(slot[last.s])
\* The slots whose handle is frame f.
BoundTo(f) == {s \in Slots : slot[s].live /\ slot[s].mFrame = f}

\* C20: in every state, the reference count of a frame is the number of slots
\* holding it plus the number of references owned outside the slots (by the
\* frame's creator, or returned by GetFrame or Forget and not yet released); a
\* slot is only ever bound to a frame that exists, every unlock is made on a
\* frame that exists, and destroying a slot bound to a frame lowers that
\* frame's count by one.
C20_ReferenceAccounting ==
  /\ \A f \in Frames : refcnt[f] = Cardinality(BoundTo(f)) + held[f]
  /\ \A s \in Slots : slot[s].mFrame # Null => refcnt[slot[s].mFrame] > 0
  /\ last # NoOp =>
       \A i \in DOMAIN last.ev : last.ev[i].e = "Unlock" => last.ev[i].rc > 0
  /\ (Called("Dtor") /\ last.pre.mFrame # Null) =>
       refcnt = [last.refPre EXCEPT ![last.pre.mFrame] = @ - 1]

\* GetFrame handed out a reference to a frame that two slots hold.
C20_Witness ==
  /\ Called("GetFrame")
  /\ last.ret # Null
  /\ held[last.ret] = last.heldPre[last.ret] + 1
  /\ Cardinality(BoundTo(last.ret)) = 2
  /\ refcnt[last.ret] = 3

\* The slots of a sequence, in order, as records.
Elements(sl, seq) == [j \in DOMAIN seq |-> sl[seq[j]]]

\* The handles of a sequence, in order.
Handles(sl, seq) == [j \in DOMAIN seq |-> sl[seq[j]].mFrame]

\* Every position of the sequence holds a slot that exists, and no slot sits
\* at two positions.
Dense(sl, seq) ==
  /\ \A j \in DOMAIN seq : sl[seq[j]].live
  /\ \A j, k \in DOMAIN seq : seq[j] = seq[k] => j = k

\* C15: InsertFrame(i, f) on a sequence of size N, with i <= N, makes the
\* size N + 1, puts a slot holding f at position i, leaves the slots before i
\* where they were and moves every slot formerly at j >= i to j + 1; a
\* RemoveFrame(i) made next gives back a sequence of size N with the former
\* handle at every position and the former reference counts; the positions
\* are dense before and after.
C15_InsertRemoveRoundTrip ==
  Called("InsertFrame") =>
    LET i == last.framenum
        N == Len(last.seqPre)
        before == Elements(last.slotPre, last.seqPre)
        now == Elements(slot, mFrames)
        undone == RemoveFrame(World, i)
    IN /\ i <= N
       /\ Len(mFrames) = N + 1
       /\ now[i + 1] = [live |-> TRUE, mFrame |-> last.arg, mFrameData |-> Null]
       /\ \A j \in 1..i : now[j] = before[j]
       /\ \A j \in (i + 1)..N : now[j + 1] = before[j]
       /\ Dense(slot, mFrames)
       /\ Len(undone.mFrames) = N
       /\ Handles(undone.slot, undone.mFrames)
            = Handles(last.slotPre, last.seqPre)
       /\ Dense(undone.slot, undone.mFrames)
       /\ undone.refcnt = last.refPre

\* A frame was inserted in front of a slot holding another frame, which moved
\* up, and removing it again moves that slot back.
C15_Witness ==
  /\ Called("InsertFrame")
  /\ last.framenum = 0
  /\ Len(last.seqPre) >= 1
  /\ last.arg # Null
  /\ slot[mFrames[1]].mFrame = last.arg
  /\ slot[mFrames[2]].mFrame \notin {Null, last.arg}
  /\ mFrames[2] = last.seqPre[1]
  /\ RemoveFrame(World, 0).mFrames = last.seqPre

\* C16: SwapFrame(index, new_frame) with index < size returns the handle the
\* slot at index held, leaves that slot holding new_frame with an inactive
\* view, leaves the size, the order and every other slot unchanged, and, if
\* the slot's view was active, makes exactly one unlock call on the displaced
\* frame, as the first call of all, and none otherwise; the displaced frame
\* is not released, its reference goes to the caller.
C16_SwapPost ==
  Called("SwapFrame") =>
    LET s == last.s
        old == last.pre.mFrame
    IN /\ last.framenum < Len(last.seqPre)
       /\ last.ret = old
       /\ slot[s] = [live |-> TRUE, mFrame |-> last.arg, mFrameData |-> Null]
       /\ mFrames = last.seqPre
       /\ \A t \in Slots \ {s} : slot[t] = last.slotPre[t]
       /\ NoError
       /\ \A f \in Frames :
            /\ Calls("Unlock", f)
                 = IF f = old /\ last.pre.mFrameData # Null THEN 1 ELSE 0
            /\ lockCount[f] = last.lockPre[f] - Calls("Unlock", f)
            /\ Calls("Lock", f) = 0
       /\ last.pre.mFrameData # Null => Is(1, "Unlock") /\ last.ev[1].rc > 0
       /\ old # Null =>
            /\ Calls("Release", old) = 0
            /\ held[old] = last.heldPre[old] + 1

\* A slot with an active view was swapped to another frame: the frame it
\* held came back, unlocked once.
C16_Witness ==
  /\ Called("SwapFrame")
  /\ IsBoundActive(last.pre)
  /\ last.arg \notin {Null, last.pre.mFrame}
  /\ last.ret = last.pre.mFrame
  /\ Calls("Unlock", last.ret) = 1
  /\ IsBoundInactive(slot[last.s])
  /\ Len(mFrames) = 2

\* C17: after ClearFrames() or the destruction of the sequence, the sequence
\* is empty and every slot it held is destroyed; every frame has received
\* exactly one unlock call for each slot of the sequence that held an active
\* view on it and one release for each slot of the sequence bound to it;
\* ClearFrames() on an empty sequence makes no call on any frame and changes
\* nothing.
C17_TeardownPost ==
  CalledOneOf({"ClearFrames", "~FrameSequence"}) =>
    LET before == Elements(last.slotPre, last.seqPre)
        active(f) == {j \in DOMAIN before : /\ before[j].mFrame = f
                                            /\ before[j].mFrameData # Null}
        bound(f) == {j \in DOMAIN before : before[j].mFrame = f}
    IN /\ mFrames = <<>>
       /\ \A j \in DOMAIN last.seqPre : slot[last.seqPre[j]] = Dead
       /\ NoError
       /\ \A f \in Frames :
            /\ Calls("Unlock", f) = Cardinality(active(f))
            /\ lockCount[f] = last.lockPre[f] - Cardinality(active(f))
            /\ Calls("Release", f) = Cardinality(bound(f))
            /\ refcnt[f] = last.refPre[f] - Cardinality(bound(f))
            /\ StaysAlive(f) \/ refcnt[f] = 0
       /\ last.seqPre = <<>> =>
            /\ last.ev = <<>>
            /\ slot = last.slotPre
            /\ refcnt = last.refPre
            /\ lockCount = last.lockPre

\* A sequence of two slots with active views, on two frames, was torn down.
C17_Witness ==
  /\ CalledOneOf({"ClearFrames", "~FrameSequence"})
  /\ Len(last.seqPre) = 2
  /\ \A j \in 1..2 : IsBoundActive(last.slotPre[last.seqPre[j]])
  /\ \A f \in Frames : Calls("Unlock", f) = 1
  /\ AllDestroyed

RECURSIVE SumOwned(_)
\* The references threads 1..n hold.
SumOwned(n) == IF n = 0 THEN 0 ELSE owned[n] + SumOwned(n - 1)

\* C18: under every interleaving of AddRef() and Release() by the threads,
\* the count is the number of references the threads hold (no increment and
\* no decrement is lost); the sequence is destroyed at most once, only after
\* the count has reached zero and no thread holds a reference, and once the
\* count is zero it is destroyed or the one thread whose decrement answered
\* zero is about to destroy it.
C18_ThreadSafeLifetime ==
  /\ mRefCnt = SumOwned(NumThreads)
  /\ deletes <= 1
  /\ deletes = 1 => mRefCnt = 0 /\ \A t \in Threads : owned[t] = 0
  /\ Cardinality({t \in Threads : count[t] = 0}) <= 1
  /\ mRefCnt = 0 =>
       (deletes = 1 /\ \A t \in Threads : count[t] # 0)
         \/ (deletes = 0 /\ \E t \in Threads : count[t] = 0)

\* The sequence was destroyed after its references had been shared between
\* two threads.
C18_Witness ==
  /\ deletes = 1
  /\ mRefCnt = 0
  /\ count[2] = 1
  /\ count[1] = NoCount

====
